---- MODULE Spec2Model ----
(***************************************************************************)
(* The Command Reloader (command_reloader/reloader.py): a single-threaded  *)
(* supervisor that polls a git status snapshot, debounces changes,         *)
(* restarts a child process group and optionally waits for a TCP port      *)
(* before running its notifier (webhook and on-restart hook).              *)
(*                                                                         *)
(* Time is the value of time.time() in whole seconds.  Every operator that *)
(* models a method takes the controller record m (the fields of the        *)
(* CommandReloader object plus the environment the method touches) and     *)
(* returns the record after the call, so that one poll tick is the         *)
(* sequential composition the code executes.                               *)
(*                                                                         *)
(* The repository's other programs have their own specifications over the  *)
(* same variables: the trigger listeners (SpecListener) and the text       *)
(* aggregator (SpecAggregator); SpecSnapshot and SpecKeywords exercise     *)
(* _get_snapshot and the constructor of the reloader on their own.         *)
(***************************************************************************)
EXTENDS Integers, Sequences, FiniteSets, TLC

\* ----------------------------------------------------------------- bounds
MaxTime == 40           \* the clock is explored up to this many seconds
MaxStarts == 2          \* at most this many children are spawned in a run
MaxBurst == 2           \* the length of a burst of changes is counted up to here
MaxRequests == 3        \* GET requests a listener handles

\* ------------------------------------------------------ program constants
PortTimeout == 30       \* self.port_timeout
StopTimeout == 5        \* self.process.wait(timeout=5)
TickCap == 100          \* the 0.1 of min(self.interval, 0.1), in milliseconds
DefaultInterval == 1000 \* interval: float = 1.0, in milliseconds

\* ------------------------------------------------------------ input sets
None == <<>>                       \* Optional[...] is a sequence of length 0 or 1
Some(x) == <<x>>

\* str.startswith(prefix)
StartsWith(text, prefix) ==
    Len(text) >= Len(prefix) /\ SubSeq(text, 1, Len(prefix)) = prefix

Paths == {"a"}
Mtimes == {-1, 7}                  \* -1 is the "path is gone" sentinel
\* a snapshot is a dict path -> mtime; dict equality is function equality
Snapshots == UNION {[P -> Mtimes] : P \in SUBSET Paths}

DebounceIntervals == {0, 5, 20}    \* values of --debounce

\* A Python int is a sequence of 30-bit digits, least significant first, as
\* CPython stores it; zero has no digit.  Only non-negative ports are explored.
Port8080 == <<8080>>
PortBeyondCLong == <<0, 0, 8>>     \* 8 * 2^60 = 2^63 = 9223372036854775808
Ports == {None, Some(Port8080)}    \* values of --wait-for-port
AllPorts == Ports \cup {Some(PortBeyondCLong)}

Commands == {"make serve", "npm start"}      \* values of the command argument
\* values of args.command, the words after the options (argparse.REMAINDER)
Argvs ==
    {<<>>, <<"--">>, <<"--", "">>, <<"make", "serve">>,
     <<"--", "make", "serve">>, <<"--", "npm", "start">>}
WebhookUrls == {None, Some("http://localhost:9000/reload")}   \* --webhook-url
OnRestarts == {None, Some("notify-send reloaded")}            \* --on-restart
\* a hook command that does not exit by itself: it follows a file for ever
FollowLog == "tail -f reload.log"

\* how one call of _get_snapshot's "git status" can go
GitResults ==
    {[raised |-> TRUE, snapshot |-> <<>>]}
    \cup {[raised |-> FALSE, snapshot |-> s] : s \in Snapshots}
\* One entry of the work tree's status as git sees it, with the state of the
\* disk: xy is the two status letters, path the path relative to the top of
\* the tree, orig the path a renamed entry had before ("" if not renamed),
\* mtime the modification time of the file at path, -1 if there is none.
\* "#" in a path stands for a byte that is not valid UTF-8.
StatusEntries ==
    {[xy |-> " M", path |-> "a", orig |-> "", mtime |-> 7],
     [xy |-> " D", path |-> "a", orig |-> "", mtime |-> -1],
     [xy |-> "??", path |-> "a#", orig |-> "", mtime |-> 8],
     [xy |-> "M ", path |-> "sub/s", orig |-> "", mtime |-> 9],
     [xy |-> "??", path |-> "n", orig |-> "", mtime |-> 5],
     [xy |-> "R ", path |-> "b", orig |-> "o", mtime |-> 7],
     [xy |-> "RM", path |-> "c", orig |-> "sub/s", mtime |-> 6],
     [xy |-> "RD", path |-> "b", orig |-> "a", mtime |-> -1]}

\* the paths an entry names
EntryPaths(e) == IF e.orig = "" THEN {e.path} ELSE {e.path, e.orig}

\* One call of _get_snapshot: the entries git reports, the directory the
\* program runs in relative to the top of the tree ("" is the top), whether
\* the git call fails, and the path, if any, whose file is deleted between
\* os.path.exists and os.path.getmtime.
StatusRuns ==
    {[entries |-> es, cwd |-> d, raised |-> r, vanishing |-> v] :
        es \in {<<>>} \cup {<<e>> : e \in StatusEntries}
               \cup {ef \in StatusEntries \X StatusEntries :
                        EntryPaths(ef[1]) \cap EntryPaths(ef[2]) = {}},
        d \in {"", "sub/"}, r \in BOOLEAN, v \in {"", "n"}}

\* how one connection attempt of _check_port can go
ConnOutcomes == {"connected", "refused", "timeout", "oserror"}
\* whether urlopen / subprocess.run of the notifier return without raising
NotifierOutcomes == [webhookOk : BOOLEAN, hookOk : BOOLEAN]
\* values of --interval (type=float, seconds), in milliseconds
Intervals == {0 - 1000, 0, 50, 100, 250, DefaultInterval}
Sleeps == {0, 10}                  \* seconds that pass between two ticks
TermWaits == {0}                   \* seconds a child takes to exit on SIGTERM

\* how one call of stop_process on a held handle can go
StopOutcomes ==
    {[kind |-> "exited", dt |-> d] : d \in TermWaits}
    \cup {[kind |-> k, dt |-> StopTimeout] : k \in {"killed", "gone_at_kill", "error_at_kill"}}
    \cup {[kind |-> k, dt |-> 0] : k \in {"gone", "error"}}

VARIABLES
    \* configuration (immutable after construction)
    command, interval, debounce_interval, wait_for_port, webhook_url, on_restart,
    \* what the program is started with and in
    argv,           \* args.command
    in_git_tree,    \* whether "git rev-parse --show-toplevel" succeeds in the cwd
    work_tree,      \* what a call of _get_snapshot finds (a member of StatusRuns)
    kwargs,         \* the keyword arguments CommandReloader(...) is called with
    server,         \* a trigger listener: its HTTP server and what it has done
    invocation,     \* a call of the text aggregator: function, arguments, result
    \* fields of CommandReloader
    process, last_snapshot, pending_restart, last_change_time,
    post_start_state, post_start_start_time,
    \* run(): its position and its local current_snapshot
    pc, current_snapshot,
    \* environment
    now,            \* time.time()
    alive,          \* children (by pid) whose process group still runs
    nextPid,        \* pid the next successful spawn gets
    \* observation
    out,            \* what the last step printed / did, in order
    probed,         \* what _check_port returned in the last step, None if not called
    detectedAt,     \* the clock when "Change detected." was last printed, None if never
    burst,          \* detected changes in a row, each less than debounce after the last
    startsSinceChange,   \* calls of _start_main_process since the last detected change
    notifiedSinceStart,  \* calls of _trigger_success_actions since the last start
    popen,          \* the arguments of the subprocess.Popen calls of the last step
    snapshot_failed, \* whether "git status" raised in the last step
    pause           \* the argument of the last call of time.sleep (ms), None before

config == <<command, interval, debounce_interval, wait_for_port, webhook_url, on_restart,
            argv, in_git_tree, work_tree, kwargs, server, invocation>>

vars == <<command, webhook_url, on_restart, popen, snapshot_failed, argv, in_git_tree,
          work_tree, kwargs, server, invocation,
          debounce_interval, wait_for_port, process, last_snapshot, pending_restart,
          last_change_time, post_start_state, post_start_start_time, pc,
          current_snapshot, now, alive, nextPid, out, probed, detectedAt, burst,
          startsSinceChange, notifiedSinceStart, interval, pause>>

\* ---------------------------------------------------------------------------
\* The trigger listeners (listener.py, listeners/mac_listener.py,
\* listeners/linux_listener.py)

\* the three listener programs, and what target_os can be in listener.py:
\* --os darwin|linux, or platform.system().lower() on the machine
Listeners == {"listener", "mac_listener", "linux_listener"}
TargetOses == {"darwin", "linux", "windows"}
AppPorts == {8080, 3000}

\* how the refresh subprocess can end: exit status 0, another exit status, or
\* the program cannot be executed at all
RefreshOutcomes == {"ok", "failed", "not found"}

\* get_applescript(target_port)
get_applescript(target_port) ==
    "tell application \"Google Chrome\" ... if URL of t contains \":"
        \o ToString(target_port) \o "\" then reload t ... end tell"

\* refresh_window(app_port) / cmd of trigger_linux
refresh_window(app_port) ==
    "xdotool search --onlyvisible --class google-chrome windowactivate --sync key F5"

\* self.send_response(200); self.end_headers()
Respond(s) ==
    [s EXCEPT !.events = Append(@, [type |-> "response", status |-> 200])]

\* mutant: no refresh is launched once one has been launched
Launch_once(s, call, printed) ==
    IF \E i \in DOMAIN s.events : s.events[i].type = "subprocess"
    THEN s
    ELSE [s EXCEPT !.events = @ \o <<call, [type |-> "print", text |-> printed]>>]

\* a subprocess call and what the handler prints on its outcome
Launch(s, call, printed) ==
    [s EXCEPT !.events = @ \o <<call, [type |-> "print", text |-> printed]>>]

\* trigger_mac(app_port) and the body of mac_listener.Handler.do_GET
trigger_mac(s, oc, where) ==
    Launch(s, [type |-> "subprocess", args |-> <<"osascript", "-">>,
               shell |-> FALSE, stdin |-> get_applescript(s.app_port)],
           CASE oc = "ok" -> "Triggered: Refreshed tab" \o where
             [] oc = "failed" -> "AppleScript Error"
             [] OTHER -> "Error running")

\* trigger_linux(app_port) and the body of linux_listener.Handler.do_GET; with
\* shell=True a command that is not found is the shell's exit status 127
trigger_linux(s, oc) ==
    Launch(s, [type |-> "subprocess", args |-> <<refresh_window(s.app_port)>>,
               shell |-> TRUE, stdin |-> ""],
           IF oc = "ok" THEN "Triggered: Refreshed Chrome"
                        ELSE "Error running xdotool")

\* do_GET of the three handlers
do_GET(s, oc) ==
    LET s1 == [Respond(s) EXCEPT !.handled = @ + 1]
    IN CASE s.module = "mac_listener" -> trigger_mac(s1, oc, "")
         [] s.module = "linux_listener" -> trigger_linux(s1, oc)
         [] s.module = "listener" /\ s.target_os = "darwin"
               -> trigger_mac(s1, oc, " (macOS)")
         [] s.module = "listener" /\ s.target_os = "linux"
               -> trigger_linux(s1, oc)
         [] OTHER -> [s1 EXCEPT !.events =
                         Append(@, [type |-> "print",
                                    text |-> "Unsupported OS. No action taken."])]

\* ---------------------------------------------------------------------------
\* The text aggregator (text_aggregator/aggregator.py)

\* The directory the aggregator runs in, as the sorted list of everything
\* under it: the path relative to the directory, whether it is a directory,
\* and whether open(..., encoding="utf-8").read() succeeds on it.
Tree ==
    <<[path |-> "app.py", isdir |-> FALSE, readable |-> TRUE],
      [path |-> "bin.dat", isdir |-> FALSE, readable |-> FALSE],
      [path |-> "build", isdir |-> TRUE, readable |-> FALSE],
      [path |-> "build/output.js", isdir |-> FALSE, readable |-> TRUE],
      [path |-> "copy", isdir |-> FALSE, readable |-> TRUE],
      [path |-> "debug.log", isdir |-> FALSE, readable |-> TRUE],
      [path |-> "node_modules", isdir |-> TRUE, readable |-> FALSE],
      [path |-> "node_modules/hidden.py", isdir |-> FALSE, readable |-> TRUE],
      [path |-> "package-lock.json", isdir |-> FALSE, readable |-> TRUE],
      [path |-> "sub", isdir |-> TRUE, readable |-> FALSE],
      [path |-> "sub/build", isdir |-> FALSE, readable |-> TRUE],
      [path |-> "sub/package-lock.json", isdir |-> FALSE, readable |-> TRUE]>>

TreePaths == {Tree[i].path : i \in DOMAIN Tree}
Entry(path) == Tree[CHOOSE i \in DOMAIN Tree : Tree[i].path = path]

\* sorted(list(set(paths))) for paths of the tree
Sorted(paths) == LET In(e) == e.path \in paths
                 IN [i \in DOMAIN SelectSeq(Tree, In) |-> SelectSeq(Tree, In)[i].path]

\* str.endswith(suffix)
EndsWith(text, suffix) ==
    Len(text) >= Len(suffix)
    /\ SubSeq(text, Len(text) - Len(suffix) + 1, Len(text)) = suffix

\* os.path.normpath(path).split(os.sep) for a relative path without "." or ".."
RECURSIVE SplitPath(_)
SplitPath(path) ==
    LET slashes == {i \in 1..Len(path) : SubSeq(path, i, i) = "/"}
    IN IF slashes = {} THEN <<path>>
       ELSE LET i == CHOOSE j \in slashes : \A k \in slashes : j <= k
            IN <<SubSeq(path, 1, i - 1)>> \o SplitPath(SubSeq(path, i + 1, Len(path)))

\* os.path.basename(path)
basename(path) == SplitPath(path)[Len(SplitPath(path))]

\* the members of a Python list
Members(list) == {list[i] : i \in DOMAIN list}

\* glob.glob(pattern, recursive=True) for the patterns "**/*" (everything) and
\* "**/*<suffix>" (everything whose name ends with the suffix)
glob(pattern) ==
    {path \in TreePaths : EndsWith(path, SubSeq(pattern, 5, Len(pattern)))}

\* mutant: the extensions are left as given
normalize_extensions_identity(extensions) == extensions

\* _normalize_extensions: every extension starts with a dot (extensions is an
\* Optional list)
normalize_extensions(extensions) ==
    IF extensions = None \/ extensions[1] = <<>>
    THEN extensions
    ELSE Some([i \in DOMAIN extensions[1] |->
                 IF StartsWith(extensions[1][i], ".") THEN extensions[1][i]
                 ELSE "." \o extensions[1][i]])

\* a config file: absent, not valid JSON, or a JSON object
ConfigFiles(objects) ==
    {[kind |-> "absent", content |-> <<>>], [kind |-> "malformed", content |-> <<>>]}
    \cup {[kind |-> "object", content |-> o] : o \in objects}

\* dict.update(other)
Update(dict, other) ==
    [k \in DOMAIN dict \cup DOMAIN other |->
        IF k \in DOMAIN other THEN other[k] ELSE dict[k]]

\* dict.get(key, default)
Get_(dict, key, default) == IF key \in DOMAIN dict THEN dict[key] ELSE default

\* mutant: the package default is applied after the global config
load_config_package_last(package, global) ==
    LET c1 == IF global.kind = "object" THEN Update(<<>>, global.content) ELSE <<>>
    IN IF package.kind = "object" THEN Update(c1, package.content) ELSE c1

\* load_config: the package default, then the global config on top of it; a
\* file that is absent or does not parse contributes nothing
load_config(package, global) ==
    LET c1 == IF package.kind = "object" THEN Update(<<>>, package.content) ELSE <<>>
    IN IF global.kind = "object" THEN Update(c1, global.content) ELSE c1

\* one line of a .gitignore file against a path, for the pattern forms
\* "name/" (a directory of that name), "*suffix" and "name", at any depth
match_pattern(pattern, path) ==
    LET parts == SplitPath(path)
        dirs == {parts[i] : i \in {j \in DOMAIN parts :
                                     j < Len(parts) \/ Entry(path).isdir}}
    IN IF EndsWith(pattern, "/")
       THEN SubSeq(pattern, 1, Len(pattern) - 1) \in dirs
       ELSE IF StartsWith(pattern, "*")
       THEN \E i \in DOMAIN parts :
               EndsWith(parts[i], SubSeq(pattern, 2, Len(pattern)))
       ELSE pattern \in Members(parts)

\* PathSpec.match_file: the last pattern that matches the path decides, a
\* pattern starting with "!" re-including the path
RECURSIVE match_file(_, _)
match_file(patterns, path) ==
    IF patterns = <<>> THEN FALSE
    ELSE LET last == patterns[Len(patterns)]
             body == IF StartsWith(last, "!") THEN SubSeq(last, 2, Len(last)) ELSE last
         IN IF match_pattern(body, path)
            THEN ~StartsWith(last, "!")
            ELSE match_file(SubSeq(patterns, 1, Len(patterns) - 1), path)

\* _load_gitignore_spec: gitignores lists the .gitignore files found walking up
\* from the working directory (nearest first); the lines are collected parent
\* first, a file that cannot be read is skipped, no line at all gives None
RECURSIVE load_gitignore_spec(_)
load_gitignore_spec(gitignores) ==
    IF gitignores = <<>> THEN None
    ELSE LET above == load_gitignore_spec(Tail(gitignores))
             here == IF Head(gitignores).readable THEN Head(gitignores).lines ELSE <<>>
             patterns == (IF above = None THEN <<>> ELSE above[1]) \o here
         IN IF patterns = <<>> THEN None ELSE Some(patterns)

\* mutant: the excluded names are compared with the whole path
Excluded_directory_whole_path(file, exclude_directories) ==
    file \in Members(exclude_directories)

\* any(part in exclude_directories for part in path_parts)
Excluded_directory(file, exclude_directories) ==
    \E i \in DOMAIN SplitPath(file) :
        SplitPath(file)[i] \in Members(exclude_directories)

\* mutant: the .gitignore patterns are applied whatever respect_gitignore says
gitignore_spec_always(respect_gitignore, gitignores) ==
    load_gitignore_spec(gitignores)

\* gitignore_spec as aggregate_text sets it
gitignore_spec(respect_gitignore, gitignores) ==
    IF respect_gitignore THEN load_gitignore_spec(gitignores) ELSE None

\* aggregate_text(path_patterns, include_extensions, exclude_extensions,
\* exclude_directories, exclude_files, respect_gitignore), with the two config
\* files and the .gitignore files it reads: the files that pass the filters
\* (listed in the FILE STRUCTURE section) and the returned list of those that
\* could be read
aggregate_text(a) ==
    LET loaded == load_config(a.package, a.global)
        exclude_directories ==
            IF a.exclude_directories = None
            THEN Get_(loaded, "exclude_directories", <<>>)
            ELSE a.exclude_directories[1]
        exclude_files ==
            IF a.exclude_files = None THEN Get_(loaded, "exclude_files", <<>>)
            ELSE a.exclude_files[1]
        include_extensions == normalize_extensions(a.include_extensions)
        exclude_extensions == normalize_extensions(a.exclude_extensions)
        Given(extensions) == extensions # None /\ extensions[1] # <<>>
        files == Sorted(UNION {glob(a.path_patterns[i]) : i \in DOMAIN a.path_patterns})
        spec == gitignore_spec(a.respect_gitignore, a.gitignores)
        Valid(file) ==
            /\ ~(Given(include_extensions)
                 /\ ~\E ext \in Members(include_extensions[1]) : EndsWith(file, ext))
            /\ ~(Given(exclude_extensions)
                 /\ \E ext \in Members(exclude_extensions[1]) : EndsWith(file, ext))
            /\ ~Excluded_directory(file, exclude_directories)
            /\ ~(exclude_files # <<>> /\ basename(file) \in Members(exclude_files))
            /\ ~(spec # None /\ match_file(spec[1], file))
            /\ ~Entry(file).isdir
        valid_files == SelectSeq(files, Valid)
        Readable(file) == Entry(file).readable
    IN [valid_files |-> valid_files,
        processed_files |-> SelectSeq(valid_files, Readable)]

\* the values of the arguments and of the files the aggregator reads
PathPatterns == {<<"**/*">>, <<"**/*.json", "**/*.py">>}
IncludeExtensions ==
    {None, Some(<<>>), Some(<<"py">>), Some(<<".py">>), Some(<<"log", ".json">>)}
ExcludeExtensions == {None, Some(<<"log">>)}
ExcludeDirectories ==
    {None, Some(<<>>), Some(<<"node_modules">>), Some(<<"build", "sub">>)}
ExcludeFiles == {None, Some(<<>>), Some(<<"package-lock.json">>)}
Gitignores ==
    {<<>>,
     <<[lines |-> <<"*.log", "build/">>, readable |-> TRUE]>>,
     <<[lines |-> <<"!debug.log">>, readable |-> TRUE],
       [lines |-> <<"*.log">>, readable |-> TRUE]>>,
     <<[lines |-> <<"*.log">>, readable |-> FALSE]>>}
PackageDefault ==
    [exclude_directories |-> <<"node_modules">>,
     exclude_files |-> <<"package-lock.json">>]
GlobalConfig == [exclude_directories |-> <<"build">>]

AggregateCalls ==
    [path_patterns : PathPatterns, include_extensions : IncludeExtensions,
     exclude_extensions : ExcludeExtensions,
     exclude_directories : ExcludeDirectories, exclude_files : ExcludeFiles,
     respect_gitignore : BOOLEAN, gitignores : Gitignores,
     package : ConfigFiles({PackageDefault}) \ {[kind |-> "malformed", content |-> <<>>]},
     global : ConfigFiles({GlobalConfig})]

\* JSON objects with any of the keys exclude_directories and no_copy
ConfigObjects(dirs) ==
    {<<>>} \cup {[exclude_directories |-> d] : d \in dirs}
           \cup {[no_copy |-> b] : b \in BOOLEAN}
           \cup {[exclude_directories |-> d, no_copy |-> b] : d \in dirs, b \in BOOLEAN}

LoadConfigCalls ==
    [package : ConfigFiles(ConfigObjects({<<"pkg_exclude">>, <<"node_modules", ".git">>})),
     global : ConfigFiles(ConfigObjects({<<"global_exclude">>, <<>>}))]

\* ---------------------------------------------------------------------------
\* the controller record the method operators work on
Self ==
    [process |-> process, last_snapshot |-> last_snapshot,
     pending_restart |-> pending_restart, last_change_time |-> last_change_time,
     post_start_state |-> post_start_state,
     post_start_start_time |-> post_start_start_time,
     current_snapshot |-> current_snapshot,
     clock |-> now, alive |-> alive, nextPid |-> nextPid, out |-> <<>>,
     probed |-> None, detectedAt |-> detectedAt, burst |-> burst,
     startsSinceChange |-> startsSinceChange,
     notifiedSinceStart |-> notifiedSinceStart,
     pc |-> pc, popen |-> <<>>, snapshot_failed |-> FALSE, pause |-> pause,
     notifier |-> [webhookOk |-> TRUE, hookOk |-> TRUE]]

Becomes(m) ==
    /\ process' = m.process
    /\ last_snapshot' = m.last_snapshot
    /\ pending_restart' = m.pending_restart
    /\ last_change_time' = m.last_change_time
    /\ post_start_state' = m.post_start_state
    /\ post_start_start_time' = m.post_start_start_time
    /\ now' = m.clock
    /\ alive' = m.alive
    /\ nextPid' = m.nextPid
    /\ out' = m.out
    /\ current_snapshot' = m.current_snapshot
    /\ probed' = m.probed
    /\ detectedAt' = m.detectedAt
    /\ burst' = m.burst
    /\ startsSinceChange' = m.startsSinceChange
    /\ notifiedSinceStart' = m.notifiedSinceStart
    /\ pc' = m.pc
    /\ popen' = m.popen
    /\ snapshot_failed' = m.snapshot_failed
    /\ pause' = m.pause

\* ------------------------------------------------------------ the methods

\* an outcome the operating system can produce for the child held in m
Feasible(m, oc) ==
    IF m.process = None THEN oc = [kind |-> "exited", dt |-> 0]
    ELSE IF m.process[1] \in m.alive
         THEN oc.kind # "gone"
         ELSE oc.kind \in {"gone", "error"} \/ oc = [kind |-> "exited", dt |-> 0]

\* an exception no handler of run() catches ends the program
Uncaught(m, exception) ==
    [m EXCEPT !.out = Append(@, exception), !.pc = "crashed"]

\* mutant: the forceful signal is sent at once, without SIGTERM and the wait
stop_process_kill_first(m, oc) ==
    IF m.process = None THEN m
    ELSE [m EXCEPT !.out = @ \o <<"Stopping process...", "SIGKILL">>,
                   !.alive = @ \ {m.process[1]}, !.process = None]

\* mutant: without the "if self.process:" guard the attribute error of a None
\* handle is caught and logged
stop_process_unguarded(m, oc) ==
    IF m.process = None
    THEN [m EXCEPT !.out = @ \o <<"Stopping process...", "Error stopping process">>]
    ELSE [m EXCEPT !.out = @ \o <<"Stopping process...", "SIGTERM">>,
                   !.alive = @ \ {m.process[1]}, !.process = None]

\* mutant: only "process already gone" is caught, any other error propagates
stop_process_propagates(m, oc) ==
    IF m.process = None THEN m
    ELSE IF oc.kind \in {"error", "error_at_kill"}
         THEN Uncaught([m EXCEPT !.out = Append(@, "Stopping process...")],
                       "PermissionError")
         ELSE [m EXCEPT !.out = @ \o <<"Stopping process...", "SIGTERM">>,
                        !.alive = @ \ {m.process[1]}, !.process = None]

stop_process(m, oc) ==
    IF m.process = None THEN m
    ELSE
      LET pid == m.process[1]
          pre == Append(m.out, "Stopping process...")
          term == Append(pre, "SIGTERM")
          esc == term \o <<"Process didn't exit, sending SIGKILL...">>
      IN CASE oc.kind = "exited" ->
                [m EXCEPT !.out = term, !.alive = @ \ {pid},
                          !.clock = @ + oc.dt, !.process = None]
           [] oc.kind = "killed" ->
                [m EXCEPT !.out = Append(esc, "SIGKILL"), !.alive = @ \ {pid},
                          !.clock = @ + oc.dt, !.process = None]
           [] oc.kind = "gone_at_kill" ->
                [m EXCEPT !.out = esc, !.alive = @ \ {pid},
                          !.clock = @ + oc.dt, !.process = None]
           [] oc.kind = "error_at_kill" ->
                [m EXCEPT !.out = Append(esc, "Error stopping process"),
                          !.clock = @ + oc.dt, !.process = None]
           [] oc.kind = "gone" ->
                [m EXCEPT !.out = pre, !.process = None]
           [] OTHER ->
                [m EXCEPT !.out = Append(pre, "Error stopping process"),
                          !.process = None]

\* mutant: the command is executed directly, not through the shell
PopenCall_no_shell ==
    [args |-> command, shell |-> FALSE, preexec_fn |-> "os.setsid",
     stdin |-> None, stdout |-> None, stderr |-> None]

\* subprocess.Popen(self.command, shell=True, preexec_fn=os.setsid); stdin,
\* stdout and stderr are not passed, that is None: inherited
PopenCall ==
    [args |-> command, shell |-> TRUE, preexec_fn |-> "os.setsid",
     stdin |-> None, stdout |-> None, stderr |-> None]

\* mutant: the error of a failed Popen is not caught
start_main_process_raises(m, oc, spawnOk) ==
    LET m1 == stop_process(m, oc)
        m2 == [m1 EXCEPT !.out = Append(@, "Starting"),
                         !.popen = Append(@, PopenCall),
                         !.startsSinceChange = @ + 1,
                         !.notifiedSinceStart = 0]
    IN IF spawnOk
       THEN [m2 EXCEPT !.process = Some(m2.nextPid),
                       !.alive = @ \cup {m2.nextPid},
                       !.nextPid = @ + 1]
       ELSE Uncaught(m2, "OSError")

start_main_process(m, oc, spawnOk) ==
    LET m1 == stop_process(m, oc)
        m2 == [m1 EXCEPT !.out = Append(@, "Starting"),
                         !.popen = Append(@, PopenCall),
                         !.startsSinceChange = @ + 1,
                         !.notifiedSinceStart = 0]
    IN IF spawnOk
       THEN [m2 EXCEPT !.process = Some(m2.nextPid),
                       !.alive = @ \cup {m2.nextPid},
                       !.nextPid = @ + 1]
       ELSE [m2 EXCEPT !.out = Append(@, "Failed to start process")]

\* urlopen(req, timeout=2.0) inside try / except Exception
call_webhook(m) ==
    LET m1 == [m EXCEPT !.out = Append(@, "Triggering webhook")]
    IN IF m.notifier.webhookOk THEN m1
       ELSE [m1 EXCEPT !.out = Append(@, "Webhook failed")]

\* subprocess.run without timeout returns when the shell of the hook exits
HookEnds(hook) == hook # FollowLog

\* subprocess.run(self.on_restart, shell=True) inside try / except Exception;
\* the call waits for the hook for as long as it runs
run_on_restart(m) ==
    LET m1 == [m EXCEPT !.out = Append(@, "Running on-restart command")]
    IN IF ~HookEnds(on_restart[1]) THEN [m1 EXCEPT !.pc = "blocked"]
       ELSE IF m.notifier.hookOk THEN m1
       ELSE [m1 EXCEPT !.out = Append(@, "Failed to run on-restart command")]

\* "if self.webhook_url:", "if self.on_restart:" - None and "" are both falsy
WebhookConfigured == webhook_url # None /\ webhook_url # Some("")
HookConfigured == on_restart # None /\ on_restart # Some("")

\* mutant: one try block around both actions, a failed webhook skips the hook
trigger_success_actions_stop_at_failure(m) ==
    LET m0 == [m EXCEPT !.out = Append(@, "notify"), !.notifiedSinceStart = @ + 1]
        m1 == IF WebhookConfigured THEN call_webhook(m0) ELSE m0
    IN IF HookConfigured /\ (m.notifier.webhookOk \/ ~WebhookConfigured)
       THEN run_on_restart(m1) ELSE m1

trigger_success_actions(m) ==
    LET m0 == [m EXCEPT !.out = Append(@, "notify"), !.notifiedSinceStart = @ + 1]
        m1 == IF WebhookConfigured THEN call_webhook(m0) ELSE m0
    IN IF HookConfigured THEN run_on_restart(m1) ELSE m1

\* self.post_start_state = "DONE", the statement that follows the return of
\* _trigger_success_actions()
Finish(m) ==
    IF m.pc = "blocked" THEN m ELSE [m EXCEPT !.post_start_state = "DONE"]

\* "if self.wait_for_port:" - None and port 0 are both falsy
PortConfigured == wait_for_port # None /\ wait_for_port # Some(<<>>)

\* the port reaches the socket layer as a C long: an int of three digits fits
\* below 2^63 only if the top digit is below 8
FitsCLong(port) == Len(port) < 3 \/ (Len(port) = 3 /\ port[3] < 8)

\* _check_port: the three caught exception classes give False; the conversion
\* error of a port beyond the C long range is none of them
check_port(port, conn) ==
    IF ~FitsCLong(port) THEN [raised |-> "OverflowError", value |-> FALSE]
    ELSE [raised |-> "", value |-> conn = "connected"]

\* mutant: without a port the phase is closed without running the notifier
init_post_start_sequence_no_notify(m) ==
    IF PortConfigured
    THEN [m EXCEPT !.out = Append(@, "Waiting for port"),
                   !.post_start_state = "WAITING_FOR_PORT",
                   !.post_start_start_time = m.clock]
    ELSE [m EXCEPT !.post_start_state = "DONE"]

init_post_start_sequence(m) ==
    IF PortConfigured
    THEN [m EXCEPT !.out = Append(@, "Waiting for port"),
                   !.post_start_state = "WAITING_FOR_PORT",
                   !.post_start_start_time = m.clock]
    ELSE Finish(trigger_success_actions(m))

\* ------------------------------------------------- one pass of the loop

\* 1. Check for Changes
\* the bookkeeping of the observation variables at "Change detected."
NoteChange(m) ==
    [m EXCEPT !.out = Append(@, "Change detected."),
              !.detectedAt = Some(m.clock),
              !.burst = IF m.detectedAt # None
                           /\ m.clock - m.detectedAt[1] < debounce_interval
                        THEN @ + 1 ELSE 1,
              !.startsSinceChange = 0]

\* mutant: the debounce timer is armed by the first change of a burst only
check_for_changes_first_only(m, oc) ==
    IF m.current_snapshot # m.last_snapshot
    THEN LET m1 == [NoteChange(m) EXCEPT
                             !.last_snapshot = m.current_snapshot,
                             !.last_change_time =
                                 IF m.pending_restart THEN @ ELSE m.clock,
                             !.pending_restart = TRUE,
                             !.post_start_state =
                                 IF @ = "WAITING_FOR_PORT" THEN "IDLE" ELSE @]
         IN IF m1.process # None THEN stop_process(m1, oc) ELSE m1
    ELSE m

\* mutant: the stored snapshot is not replaced by the fresh one
check_for_changes_keep_snapshot(m, oc) ==
    IF m.current_snapshot # m.last_snapshot
    THEN LET m1 == [NoteChange(m) EXCEPT
                             !.last_change_time = m.clock,
                             !.pending_restart = TRUE,
                             !.post_start_state =
                                 IF @ = "WAITING_FOR_PORT" THEN "IDLE" ELSE @]
         IN IF m1.process # None THEN stop_process(m1, oc) ELSE m1
    ELSE m

\* mutant: the running child is left to the stop inside _start_main_process
check_for_changes_no_stop(m, oc) ==
    IF m.current_snapshot # m.last_snapshot
    THEN [NoteChange(m) EXCEPT
                 !.last_snapshot = m.current_snapshot,
                 !.last_change_time = m.clock,
                 !.pending_restart = TRUE,
                 !.post_start_state =
                     IF @ = "WAITING_FOR_PORT" THEN "IDLE" ELSE @]
    ELSE m

\* mutant: a change leaves the phase WAITING_FOR_PORT
check_for_changes_keep_waiting(m, oc) ==
    IF m.current_snapshot # m.last_snapshot
    THEN LET m1 == [NoteChange(m) EXCEPT
                             !.last_snapshot = m.current_snapshot,
                             !.last_change_time = m.clock,
                             !.pending_restart = TRUE]
         IN IF m1.process # None THEN stop_process(m1, oc) ELSE m1
    ELSE m

\* mutant: the loop polls the child and schedules a restart when it has exited
check_for_changes_polls_child(m, oc) ==
    IF m.current_snapshot # m.last_snapshot
    THEN LET m1 == [NoteChange(m) EXCEPT
                             !.last_snapshot = m.current_snapshot,
                             !.last_change_time = m.clock,
                             !.pending_restart = TRUE,
                             !.post_start_state =
                                 IF @ = "WAITING_FOR_PORT" THEN "IDLE" ELSE @]
         IN IF m1.process # None THEN stop_process(m1, oc) ELSE m1
    ELSE IF m.process # None /\ m.process[1] \notin m.alive
    THEN [m EXCEPT !.process = None, !.pending_restart = TRUE,
                   !.last_change_time = m.clock]
    ELSE m

check_for_changes(m, oc) ==
    IF m.current_snapshot # m.last_snapshot
    THEN LET m1 == [NoteChange(m) EXCEPT
                             !.last_snapshot = m.current_snapshot,
                             !.last_change_time = m.clock,
                             !.pending_restart = TRUE,
                             !.post_start_state =
                                 IF @ = "WAITING_FOR_PORT" THEN "IDLE" ELSE @]
         IN IF m1.process # None THEN stop_process(m1, oc) ELSE m1
    ELSE m

\* "time.time() - self.last_change_time >= self.debounce_interval"
DebounceSettled(m) == m.clock - m.last_change_time >= debounce_interval

\* mutant: pending_restart is cleared only when no port is waited for
handle_debounce_clears_late(m, oc, spawnOk) ==
    IF m.pending_restart /\ DebounceSettled(m)
    THEN LET m1 == [m EXCEPT !.out = Append(@, "Debounce settled. Restarting..."),
                             !.pending_restart = PortConfigured]
         IN init_post_start_sequence(
                start_main_process(m1, oc, spawnOk))
    ELSE m

\* mutant: after a failed spawn the restart stays pending and the post-start
\* sequence is left out
handle_debounce_retries(m, oc, spawnOk) ==
    IF m.pending_restart /\ DebounceSettled(m)
    THEN LET m1 == [m EXCEPT !.out = Append(@, "Debounce settled. Restarting..."),
                             !.pending_restart = FALSE]
             m2 == start_main_process(m1, oc, spawnOk)
         IN IF m2.process = None THEN [m2 EXCEPT !.pending_restart = TRUE]
            ELSE init_post_start_sequence(m2)
    ELSE m

\* 2. Handle Debounce & Restart (the branch that does not "continue")
handle_debounce(m, oc, spawnOk) ==
    IF m.pending_restart /\ DebounceSettled(m)
    THEN LET m1 == [m EXCEPT !.out = Append(@, "Debounce settled. Restarting..."),
                             !.pending_restart = FALSE]
         IN init_post_start_sequence(
                start_main_process(m1, oc, spawnOk))
    ELSE m

\* 3. Handle Post-Start Sequence
\* mutant: a timed-out wait runs the notifier anyway
handle_post_start_notify_on_timeout(m, conn) ==
    IF m.post_start_state = "WAITING_FOR_PORT"
    THEN LET r == check_port(wait_for_port[1], conn)
             m1 == [m EXCEPT !.probed = Some(r.value)]
         IN IF r.raised # "" THEN Uncaught(m, r.raised)
            ELSE IF r.value
            THEN [trigger_success_actions(
                      [m1 EXCEPT !.out = Append(@, "Port is ready.")])
                     EXCEPT !.post_start_state = "DONE"]
            ELSE IF m1.clock - m1.post_start_start_time > PortTimeout
                 THEN [trigger_success_actions(
                           [m1 EXCEPT !.out = Append(@, "Timed out waiting for port")])
                          EXCEPT !.post_start_state = "DONE"]
                 ELSE m1
    ELSE m

\* mutant: the timeout is measured from the last change, not from the start
handle_post_start_from_change(m, conn) ==
    IF m.post_start_state = "WAITING_FOR_PORT"
    THEN LET r == check_port(wait_for_port[1], conn)
             m1 == [m EXCEPT !.probed = Some(r.value)]
         IN IF r.raised # "" THEN Uncaught(m, r.raised)
            ELSE IF r.value
            THEN [trigger_success_actions(
                      [m1 EXCEPT !.out = Append(@, "Port is ready.")])
                     EXCEPT !.post_start_state = "DONE"]
            ELSE IF m1.clock - m1.last_change_time > PortTimeout
                 THEN [m1 EXCEPT !.out = Append(@, "Timed out waiting for port"),
                                 !.post_start_state = "DONE"]
                 ELSE m1
    ELSE m

\* mutant: the port is probed in the phase DONE as well
handle_post_start_probes_when_done(m, conn) ==
    IF m.post_start_state = "WAITING_FOR_PORT"
       \/ (m.post_start_state = "DONE" /\ PortConfigured)
    THEN LET r == check_port(wait_for_port[1], conn)
             m1 == [m EXCEPT !.probed = Some(r.value)]
         IN IF r.raised # "" THEN Uncaught(m, r.raised)
            ELSE IF r.value
            THEN Finish(trigger_success_actions(
                            [m1 EXCEPT !.out = Append(@, "Port is ready.")]))
            ELSE IF m1.clock - m1.post_start_start_time > PortTimeout
                 THEN [m1 EXCEPT !.out = Append(@, "Timed out waiting for port"),
                                 !.post_start_state = "DONE"]
                 ELSE m1
    ELSE m

handle_post_start(m, conn) ==
    IF m.post_start_state = "WAITING_FOR_PORT"
    THEN LET r == check_port(wait_for_port[1], conn)
             m1 == [m EXCEPT !.probed = Some(r.value)]
         IN IF r.raised # "" THEN Uncaught(m, r.raised)
            ELSE IF r.value
            THEN Finish(trigger_success_actions(
                            [m1 EXCEPT !.out = Append(@, "Port is ready.")]))
            ELSE IF m1.clock - m1.post_start_start_time > PortTimeout
                 THEN [m1 EXCEPT !.out = Append(@, "Timed out waiting for port"),
                                 !.post_start_state = "DONE"]
                 ELSE m1
    ELSE m

\* the output of "git status --porcelain -z" split at the NUL bytes: one part
\* "XY path" per entry; a renamed entry is "XY path" followed by a part with
\* the original path; the part after the last NUL is empty
RECURSIVE StatusParts(_)
StatusParts(entries) ==
    IF entries = <<>> THEN <<"">>
    ELSE LET e == Head(entries)
         IN (IF e.orig = "" THEN <<e.xy \o " " \o e.path>>
             ELSE <<e.xy \o " " \o e.path, e.orig>>)
            \o StatusParts(Tail(entries))

\* bytes.decode("utf-8", errors="ignore"): invalid bytes are dropped
RECURSIVE Decode(_)
Decode(bytes) ==
    IF bytes = "" THEN ""
    ELSE (IF SubSeq(bytes, 1, 1) = "#" THEN "" ELSE SubSeq(bytes, 1, 1))
         \o Decode(SubSeq(bytes, 2, Len(bytes)))

\* str.strip()
RECURSIVE Strip(_)
Strip(text) ==
    IF text = "" THEN ""
    ELSE IF SubSeq(text, 1, 1) = " " THEN Strip(SubSeq(text, 2, Len(text)))
    ELSE IF SubSeq(text, Len(text), Len(text)) = " "
         THEN Strip(SubSeq(text, 1, Len(text) - 1))
    ELSE text

\* os.path.exists / os.path.getmtime of a relative name: the name is resolved
\* against the directory the program runs in
Stat(run, name) ==
    LET hits == {i \in DOMAIN run.entries :
                    /\ run.entries[i].mtime # -1
                    /\ run.entries[i].path = run.cwd \o name}
    IN IF hits = {} THEN -1 ELSE run.entries[CHOOSE i \in hits : TRUE].mtime

\* snapshot[key] = value
Put(snapshot, key, value) ==
    [k \in DOMAIN snapshot \cup {key} |-> IF k = key THEN value ELSE snapshot[k]]

\* _get_snapshot, the while loop over parts from index i on (1-based); the
\* result is the dict at the end of the loop or at the exception that
\* os.path.getmtime raises for a file that has just vanished
RECURSIVE parse_status(_, _, _, _)
parse_status(parts, i, snapshot, run) ==
    IF i > Len(parts) THEN snapshot
    ELSE LET text == Decode(parts[i])
             status == SubSeq(text, 1, 2)
             path == SubSeq(text, 4, Len(text))
         IN IF parts[i] = "" \/ Len(text) < 3
            THEN parse_status(parts, i + 1, snapshot, run)
            ELSE IF StartsWith(Strip(status), "R")
            THEN LET marked == Put(snapshot, "OLD:" \o path, -1)
                     new_path == Decode(parts[i + 1])
                 IN IF i + 1 > Len(parts)
                    THEN marked
                    ELSE IF Stat(run, new_path) # -1
                            /\ run.cwd \o new_path = run.vanishing
                    THEN marked
                    ELSE parse_status(parts, i + 2,
                             Put(marked, new_path, Stat(run, new_path)), run)
            ELSE IF Stat(run, path) # -1 /\ run.cwd \o path = run.vanishing
                 THEN snapshot
                 ELSE parse_status(parts, i + 1,
                                   Put(snapshot, path, Stat(run, path)), run)

\* subprocess.check_output(["git", "status", ...]) and the loop, as one result
\* for _get_snapshot's try block
git_status(run) ==
    [raised |-> run.raised,
     snapshot |-> IF run.raised THEN <<>>
                  ELSE parse_status(StatusParts(run.entries), 1, <<>>, run)]

\* mutant: a failed query reports every path as gone
get_snapshot_sentinel(git) ==
    IF git.raised THEN [p \in Paths |-> -1] ELSE git.snapshot

\* _get_snapshot: the whole body is inside try / except Exception: pass, and
\* "git status" is its first statement, so a failed query returns the dict
\* as initialised
get_snapshot(git) == IF git.raised THEN <<>> ELSE git.snapshot

\* mutant: the tick of the restart ends after the start, the phase it entered
\* is looked at on the next tick
loop_body_defers_post_start(m, d, git, oc, spawnOk, conn, notifier) ==
    LET m0 == [m EXCEPT !.clock = @ + d,
                        !.current_snapshot = get_snapshot(git),
                        !.snapshot_failed = git.raised,
                        !.notifier = notifier]
        m1 == check_for_changes(m0, oc)
    IN IF m1.pending_restart /\ ~DebounceSettled(m1)
       THEN m1
       ELSE IF m1.pending_restart
       THEN handle_debounce(m1, oc, spawnOk)
       ELSE handle_post_start(m1, conn)

\* mutant: the loop sleeps for the configured interval
sleep_time_uncapped == interval

\* min(self.interval, 0.1)
sleep_time == IF TickCap < interval THEN TickCap ELSE interval

\* one iteration of "while True": the sleep, after which the clock is found d
\* seconds on, and the body.  time.sleep raises ValueError for a negative
\* argument, and run() catches KeyboardInterrupt only.
loop_body(m, d, git, oc, spawnOk, conn, notifier) ==
    IF sleep_time < 0
    THEN Uncaught([m EXCEPT !.pause = Some(sleep_time)], "ValueError")
    ELSE
    LET m0 == [m EXCEPT !.pause = Some(sleep_time),
                        !.clock = @ + d,
                        !.current_snapshot = get_snapshot(git),
                        !.snapshot_failed = git.raised,
                        !.notifier = notifier]
        m1 == check_for_changes(m0, oc)
    IN IF m1.pending_restart /\ ~DebounceSettled(m1)
       THEN m1      \* continue
       ELSE handle_post_start(handle_debounce(m1, oc, spawnOk), conn)

\* ---------------------------------------------------------------- actions

\* " ".join(args.command)
RECURSIVE Join(_)
Join(words) ==
    IF words = <<>> THEN ""
    ELSE IF Len(words) = 1 THEN words[1]
    ELSE words[1] \o " " \o Join(Tail(words))

\* main(): the command string handed to CommandReloader
command_str(words) ==
    LET joined == Join(words)
    IN IF StartsWith(joined, "-- ") THEN SubSeq(joined, 4, Len(joined)) ELSE joined

\* the fields as __init__ leaves them and the environment before run()
Fresh ==
    /\ process = None
    /\ last_snapshot = <<>>
    /\ pending_restart = FALSE
    /\ last_change_time = 0
    /\ post_start_state = "IDLE"
    /\ post_start_start_time = 0
    /\ now = 0
    /\ alive = {}
    /\ nextPid = 1
    /\ out = <<>>
    /\ current_snapshot = <<>>
    /\ probed = None
    /\ detectedAt = None
    /\ burst = 0
    /\ startsSinceChange = 0
    /\ notifiedSinceStart = 0
    /\ popen = <<>>
    /\ snapshot_failed = FALSE
    /\ pause = None

\* the keyword parameters of CommandReloader.__init__; main() passes them all
Parameters ==
    {"interval", "wait_for_port", "on_restart", "debounce_interval", "webhook_url"}

\* a clean work tree, seen from its top
CleanTree == [entries |-> <<>>, cwd |-> "", raised |-> FALSE, vanishing |-> ""]

\* CommandReloader.__init__ on the parsed arguments
ConstructAt(intervals, commands, debounces, ports, urls, hooks) ==
    /\ interval \in intervals
    /\ command \in commands
    /\ argv = CHOOSE words \in Argvs : words # <<>> /\ command_str(words) = command
    /\ in_git_tree \in BOOLEAN
    /\ work_tree = CleanTree
    /\ kwargs = Parameters
    /\ server = None
    /\ invocation = None
    /\ pc = "init"
    /\ Fresh
    /\ debounce_interval \in debounces
    /\ wait_for_port \in ports
    /\ webhook_url \in urls
    /\ on_restart \in hooks

\* the construction with the default poll interval
Construct(commands, debounces, ports, urls, hooks) ==
    ConstructAt({DefaultInterval}, commands, debounces, ports, urls, hooks)

\* each poll interval, no debounce, no port, no notifier action
InitInterval == ConstructAt(Intervals, {"make serve"}, {0}, {None}, {None}, {None})

\* a plain command with every debounce, with or without a port to wait for
Init == Construct({"make serve"}, DebounceIntervals, Ports, {None}, {None})

\* the other options, no debounce: each command, each combination of notifier
\* actions, each port
\* a hook that follows a file, with and without a webhook and a port
InitHook ==
    Construct({"make serve"}, {0}, Ports, WebhookUrls, {Some(FollowLog)})

InitConfig ==
    \/ Construct(Commands, {0}, {None}, {None}, {None})
    \/ Construct({"make serve"}, {0}, {None}, WebhookUrls, OnRestarts)
    \/ Construct({"make serve"}, {0}, AllPorts, {None}, {None})

\* the program as started from the shell, before main() has run
InitMain ==
    /\ argv \in Argvs
    /\ in_git_tree \in BOOLEAN
    /\ work_tree = CleanTree
    /\ kwargs = Parameters
    /\ server = None
    /\ invocation = None
    /\ pc = "main"
    /\ command = ""
    /\ interval = DefaultInterval
    /\ debounce_interval = 0
    /\ wait_for_port = None
    /\ webhook_url = None
    /\ on_restart = None
    /\ Fresh

\* a constructed controller about to take a snapshot of some work tree
InitSnapshot ==
    /\ command = "make serve"
    /\ argv = <<"make", "serve">>
    /\ in_git_tree = TRUE
    /\ work_tree \in StatusRuns
    /\ kwargs = {}
    /\ server = None
    /\ invocation = None
    /\ pc = "snapshot"
    /\ interval = DefaultInterval
    /\ debounce_interval = 0
    /\ wait_for_port = None
    /\ webhook_url = None
    /\ on_restart = None
    /\ Fresh

\* a caller about to construct a controller for "make serve" with some
\* keyword arguments, as the unit tests do
InitKeywords ==
    /\ command = "make serve"
    /\ argv = <<"make", "serve">>
    /\ in_git_tree \in BOOLEAN
    /\ work_tree = CleanTree
    /\ kwargs \in {{}, {"wait_for_port"}, {"wait_for_regex"},
                   {"wait_for_port", "wait_for_regex"}}
    /\ server = None
    /\ invocation = None
    /\ pc = "construct"
    /\ interval = DefaultInterval
    /\ debounce_interval \in {0, 5}
    /\ wait_for_port \in IF "wait_for_port" \in kwargs THEN {Some(Port8080)}
                                                       ELSE {None}
    /\ webhook_url = None
    /\ on_restart = None
    /\ Fresh

\* a listener serving on its port, no request handled yet; the reloader's
\* variables are those of a controller not yet run
InitListener ==
    /\ command = "make serve"
    /\ argv = <<"make", "serve">>
    /\ in_git_tree = TRUE
    /\ work_tree = CleanTree
    /\ kwargs = {}
    /\ \E module \in Listeners, os \in TargetOses, port \in AppPorts :
          /\ module # "listener" => os = (IF module = "mac_listener"
                                          THEN "darwin" ELSE "linux")
          /\ server = Some([module |-> module, target_os |-> os,
                            app_port |-> port, handled |-> 0, events |-> <<>>])
    /\ invocation = None
    /\ pc = "serve_forever"
    /\ interval = DefaultInterval
    /\ debounce_interval = 0
    /\ wait_for_port = None
    /\ webhook_url = None
    /\ on_restart = None
    /\ Fresh

\* a caller about to call aggregate_text or load_config
InitAggregator ==
    /\ command = "make serve"
    /\ argv = <<"make", "serve">>
    /\ in_git_tree = TRUE
    /\ work_tree = CleanTree
    /\ kwargs = Parameters
    /\ server = None
    /\ \/ \E a \in AggregateCalls :
             invocation = Some([function |-> "aggregate_text", args |-> a, result |-> None])
       \/ \E a \in LoadConfigCalls :
             invocation = Some([function |-> "load_config", args |-> a, result |-> None])
    /\ pc = "call"
    /\ interval = DefaultInterval
    /\ debounce_interval = 0
    /\ wait_for_port = None
    /\ webhook_url = None
    /\ on_restart = None
    /\ Fresh

\* mutant: a bare "--" is taken for the command
Main_accepts_bare_dashes ==
    /\ pc = "main"
    /\ IF argv = <<>>
       THEN /\ pc' = "exit1"
            /\ out' = <<"Error: No command specified.">>
            /\ UNCHANGED command
       ELSE /\ pc' = "init"
            /\ command' = command_str(argv)
            /\ out' = <<>>
    /\ UNCHANGED <<interval, debounce_interval, wait_for_port, webhook_url, on_restart,
                   argv, in_git_tree, work_tree, kwargs, server, invocation,
                   process, last_snapshot, pending_restart,
                   last_change_time, post_start_state, post_start_start_time,
                   current_snapshot, now, alive, nextPid, probed, detectedAt,
                   burst, startsSinceChange, notifiedSinceStart, popen,
                   snapshot_failed, pause>>

\* main(), after parse_args: the command checks and the construction
Main ==
    /\ pc = "main"
    /\ IF argv = <<>>
       THEN /\ pc' = "exit1"
            /\ out' = <<"Error: No command specified.">>
            /\ UNCHANGED command
       ELSE IF ~StartsWith(Join(argv), "-- ") /\ Join(argv) = "--"
       THEN /\ pc' = "exit1"
            /\ out' = <<"Error: No command specified after --">>
            /\ UNCHANGED command
       ELSE /\ pc' = "init"
            /\ command' = command_str(argv)
            /\ out' = <<>>
    /\ UNCHANGED <<interval, debounce_interval, wait_for_port, webhook_url, on_restart,
                   argv, in_git_tree, work_tree, kwargs, server, invocation,
                   process, last_snapshot, pending_restart,
                   last_change_time, post_start_state, post_start_start_time,
                   current_snapshot, now, alive, nextPid, probed, detectedAt,
                   burst, startsSinceChange, notifiedSinceStart, popen,
                   snapshot_failed, pause>>

\* mutant: the initial trigger arms the timer at the current time
RunStart_gate_closed ==
    /\ pc = "init"
    /\ \/ \E git \in GitResults :
              /\ in_git_tree
              /\ pc' = "loop"
              /\ last_snapshot' = get_snapshot(git)
              /\ snapshot_failed' = git.raised
              /\ pending_restart' = TRUE
              /\ last_change_time' = now
              /\ out' = <<>>
       \/ /\ ~in_git_tree
          /\ pc' = "exit1"
          /\ out' = <<"Error: Current directory is not part of a git repository.">>
          /\ UNCHANGED <<last_snapshot, pending_restart, last_change_time,
                         snapshot_failed>>
    /\ UNCHANGED <<config, process, post_start_state,
                   post_start_start_time, current_snapshot, now, alive, nextPid,
                   probed, detectedAt, burst, startsSinceChange, notifiedSinceStart,
                   popen, pause>>

\* run(), up to the loop: the git check, the first snapshot, the initial trigger
RunStart ==
    /\ pc = "init"
    /\ \/ \E git \in GitResults :
              /\ in_git_tree
              /\ pc' = "loop"
              /\ last_snapshot' = get_snapshot(git)
              /\ snapshot_failed' = git.raised
              /\ pending_restart' = TRUE
              /\ last_change_time' = now - debounce_interval
              /\ out' = <<>>
       \/ /\ ~in_git_tree
          /\ pc' = "exit1"
          /\ out' = <<"Error: Current directory is not part of a git repository.">>
          /\ UNCHANGED <<last_snapshot, pending_restart, last_change_time,
                         snapshot_failed>>
    /\ UNCHANGED <<config, process, post_start_state,
                   post_start_start_time, current_snapshot, now, alive, nextPid,
                   probed, detectedAt, burst, startsSinceChange, notifiedSinceStart,
                   popen, pause>>

\* the inputs a pass of the loop is given when it is only asked what it reads
Unread ==
    [oc |-> [kind |-> "exited", dt |-> 0], spawnOk |-> TRUE, conn |-> "refused",
     notifier |-> [webhookOk |-> TRUE, hookOk |-> TRUE]]

Says(m, line) == \E i \in DOMAIN m.out : m.out[i] = line

\* one iteration of "while True".  Which of its inputs a tick reads is found
\* by passes with the inputs of Unread; an input the tick never reads is not
\* enumerated.
Tick ==
    /\ pc = "loop"
    /\ \E d \in Sleeps, git \in GitResults :
        \E p1 \in {loop_body(Self, d, git, Unread.oc, Unread.spawnOk, Unread.conn,
                              Unread.notifier)} :
        \E oc \in (IF Says(p1, "Stopping process...")
                   THEN {o \in StopOutcomes : Feasible(Self, o)} ELSE {Unread.oc}) :
        \* how long the stop took decides whether the debounce has settled
        \E p2 \in {IF oc = Unread.oc THEN p1
                   ELSE loop_body(Self, d, git, oc, Unread.spawnOk, Unread.conn,
                                  Unread.notifier)} :
        \E spawnOk \in (IF p2.popen # <<>> THEN BOOLEAN ELSE {Unread.spawnOk}),
           conn \in (IF p2.probed # None THEN ConnOutcomes ELSE {Unread.conn}) :
        \E p3 \in {IF spawnOk = Unread.spawnOk /\ conn = Unread.conn THEN p2
                   ELSE loop_body(Self, d, git, oc, spawnOk, conn,
                                  Unread.notifier)} :
        \E notifier \in (IF Says(p3, "notify")
                         THEN {n \in NotifierOutcomes :
                                 /\ ~WebhookConfigured => n.webhookOk
                                 /\ ~HookConfigured => n.hookOk}
                         ELSE {Unread.notifier}) :
        \E m \in {IF notifier = Unread.notifier THEN p3
                  ELSE loop_body(Self, d, git, oc, spawnOk, conn, notifier)} :
            /\ m.clock <= MaxTime
            /\ m.nextPid <= MaxStarts + 1
            /\ m.burst <= MaxBurst
            /\ Becomes(m)
    /\ UNCHANGED config

\* KeyboardInterrupt while the loop sleeps, or while it waits for the hook
\* (KeyboardInterrupt is no Exception: it passes the "except Exception")
Interrupt ==
    /\ pc \in {"loop", "blocked"}
    /\ \E oc \in {o \in StopOutcomes : Feasible(Self, o)} :
         \E m \in {stop_process([Self EXCEPT !.out = <<"Exiting...">>,
                                               !.pc = "exited"], oc)} :
            /\ m.clock <= MaxTime
            /\ Becomes(m)
    /\ UNCHANGED config

\* the child's process group ends by itself
ChildExit ==
    /\ \E pid \in alive : alive' = alive \ {pid}
    /\ out' = <<>>
    /\ probed' = None
    /\ popen' = <<>>
    /\ snapshot_failed' = FALSE
    /\ UNCHANGED <<config, process, last_snapshot,
                   pending_restart, last_change_time, post_start_state,
                   post_start_start_time, pc, current_snapshot, now, nextPid,
                   detectedAt, burst, startsSinceChange, notifiedSinceStart, pause>>

Next == RunStart \/ Tick \/ Interrupt \/ ChildExit

\* the call CommandReloader(command, **kwargs): Python raises TypeError for a
\* keyword that is not a parameter of __init__, before the body runs
ConstructCall ==
    /\ pc = "construct"
    /\ IF kwargs \subseteq Parameters
       THEN pc' = "init" /\ out' = <<>>
       ELSE pc' = "crashed" /\ out' = <<"TypeError">>
    /\ UNCHANGED <<config, process, last_snapshot, pending_restart, last_change_time,
                   post_start_state, post_start_start_time, now, alive, nextPid,
                   probed, detectedAt, burst, startsSinceChange, notifiedSinceStart,
                   popen, current_snapshot, snapshot_failed, pause>>

\* one call of _get_snapshot on the work tree
GetSnapshot ==
    /\ pc = "snapshot"
    /\ pc' = "returned"
    /\ current_snapshot' = get_snapshot(git_status(work_tree))
    /\ snapshot_failed' = work_tree.raised
    /\ UNCHANGED <<config, process, last_snapshot, pending_restart, last_change_time,
                   post_start_state, post_start_start_time, now, alive, nextPid, out,
                   probed, detectedAt, burst, startsSinceChange, notifiedSinceStart,
                   popen, pause>>

Spec == Init /\ [][Next]_vars

SpecConfig == InitConfig /\ [][Next]_vars

SpecHook == InitHook /\ [][Next]_vars

SpecInterval == InitInterval /\ [][Next]_vars

\* the whole program, from main()
NextMain == Main \/ Next

SpecMain == InitMain /\ [][NextMain]_vars

NextSnapshot == GetSnapshot

\* one GET request arrives and is handled
Get ==
    /\ pc = "serve_forever"
    /\ server[1].handled < MaxRequests
    /\ \E oc \in RefreshOutcomes : server' = Some(do_GET(server[1], oc))
    /\ UNCHANGED <<command, interval, debounce_interval, wait_for_port, webhook_url, on_restart,
                   argv, in_git_tree, work_tree, kwargs,
                   process, last_snapshot, pending_restart, last_change_time,
                   post_start_state, post_start_start_time, now, alive, nextPid, out,
                   probed, detectedAt, burst, startsSinceChange, notifiedSinceStart,
                   popen, current_snapshot, snapshot_failed, pc, invocation, pause>>

NextListener == Get

\* what an aggregator call leaves alone
Elsewhere ==
    <<command, interval, debounce_interval, wait_for_port, webhook_url, on_restart,
      argv, in_git_tree, work_tree, kwargs, server,
      process, last_snapshot, pending_restart, last_change_time,
      post_start_state, post_start_start_time, now, alive, nextPid, out,
      probed, detectedAt, burst, startsSinceChange, notifiedSinceStart,
      popen, current_snapshot, snapshot_failed, pause>>

\* the call of aggregate_text returns
Aggregate ==
    /\ pc = "call" /\ invocation[1].function = "aggregate_text"
    /\ invocation' = Some([invocation[1] EXCEPT !.result = Some(aggregate_text(invocation[1].args))])
    /\ pc' = "returned"
    /\ UNCHANGED Elsewhere

\* the call of load_config returns
LoadConfig ==
    /\ pc = "call" /\ invocation[1].function = "load_config"
    /\ invocation' = Some([invocation[1] EXCEPT
                       !.result = Some(load_config(invocation[1].args.package,
                                                   invocation[1].args.global))])
    /\ pc' = "returned"
    /\ UNCHANGED Elsewhere

NextAggregator == Aggregate \/ LoadConfig

SpecAggregator == InitAggregator /\ [][NextAggregator]_vars

SpecListener == InitListener /\ [][NextListener]_vars

NextKeywords == ConstructCall \/ Next

SpecKeywords == InitKeywords /\ [][NextKeywords]_vars

SpecSnapshot == InitSnapshot /\ [][NextSnapshot]_vars

\* ------------------------------------------------ reading the observation

Printed(line) == \E i \in DOMAIN out : out[i] = line
Count(line) == Cardinality({i \in DOMAIN out : out[i] = line})
Position(line) == CHOOSE i \in DOMAIN out : out[i] = line

Changed == Printed("Change detected.")
Started == Printed("Starting")
Notified == Printed("notify")

\* a step of Tick (ChildExit is the one step in the loop that prints nothing and
\* changes alive)
TickStep == pc = "loop" /\ pc' = "loop" /\ (alive' = alive \/ out' # <<>>)

\* ----------------------------------------------------------------- claims

\* C1: a burst of changes, each detected less than debounce_interval after the
\* previous one, gets exactly one start: no start happens between two changes of
\* the burst, the start happens on the first tick at which the debounce has
\* elapsed since the LAST detected change, and never earlier than that.
C1_BurstRestartsOnce ==
    [][TickStep =>
        /\ (Started' /\ detectedAt' # None
               => now' - detectedAt'[1] >= debounce_interval)
        /\ (detectedAt' # None /\ (Changed' \/ startsSinceChange = 0)
               /\ now' - detectedAt'[1] >= debounce_interval
               => Started' /\ Count("Starting")' = 1)
        /\ (Changed' /\ burst' > 1 => startsSinceChange = 0)
        /\ startsSinceChange' <= 1]_vars

\* C1 witness: the start that ends a burst of two changes, timed from the second
C1_Witness ==
    /\ Started /\ ~Changed /\ burst = 2 /\ startsSinceChange = 1
    /\ debounce_interval > 0
    /\ now - detectedAt[1] >= debounce_interval

\* C2: at most one managed child process group is alive in every reachable state.
C2_AtMostOneChildAlive == Cardinality(alive) <= 1

\* C3: with no port configured the notifier runs exactly once per restart, in the
\* tick of the start and after the start, and the phase is DONE at the end of
\* that tick (and is never WAITING_FOR_PORT).
C3_NoPortNotifiesInStartTick ==
    ~PortConfigured =>
        /\ Count("notify") = Count("Starting")
        /\ Count("notify") <= 1
        /\ (Started => /\ Position("notify") > Position("Starting")
                       /\ out[Len(out)] = "notify"
                       /\ post_start_state = "DONE")
        /\ post_start_state # "WAITING_FOR_PORT"
        /\ (post_start_state = "DONE" => notifiedSinceStart = 1)
        /\ (post_start_state = "IDLE" => notifiedSinceStart = 0)

C3_Witness ==
    /\ ~PortConfigured /\ Started /\ Notified
    /\ post_start_state = "DONE" /\ nextPid = 3

\* C4: with a port configured the notifier runs on exactly the ticks whose probe
\* reported the port reachable; while the phase is WAITING_FOR_PORT and no change
\* is detected every tick probes, so a port that becomes reachable is seen; the
\* notifier then has run once for that start and the phase is DONE.
C4_PortReadyNotifiesOnce ==
    [][TickStep /\ PortConfigured =>
        /\ (Notified' <=> probed' = Some(TRUE))
        /\ (post_start_state = "WAITING_FOR_PORT" /\ ~Changed' => probed' # None)
        /\ (Notified' => /\ Count("notify")' = 1
                         /\ notifiedSinceStart' = 1
                         /\ post_start_state' = "DONE")
        /\ notifiedSinceStart' <= 1]_vars

\* the port came up on a later tick than the start, before the timeout
C4_Witness ==
    /\ PortConfigured /\ probed = Some(TRUE) /\ Notified /\ ~Started
    /\ post_start_state = "DONE" /\ notifiedSinceStart = 1
    /\ now - post_start_start_time = 10

\* C5: with a port configured, a tick whose probe fails never runs the notifier;
\* the wait is timed from the tick that entered WAITING_FOR_PORT, and the phase
\* leaves WAITING_FOR_PORT for DONE on a failed probe only at or after
\* PortTimeout seconds from then, with the notifier not run for that start.
C5_PortTimeoutGivesUp ==
    [][TickStep /\ PortConfigured =>
        /\ (probed' # Some(TRUE) => ~Notified')
        /\ (Started' => post_start_state' # "IDLE" /\ post_start_start_time' = now')
        /\ (~Started' => post_start_start_time' = post_start_start_time)
        /\ (post_start_state = "WAITING_FOR_PORT" /\ post_start_state' = "DONE"
               /\ probed' = Some(FALSE)
               => /\ now' - post_start_start_time' >= PortTimeout
                  /\ notifiedSinceStart' = 0
                  /\ Printed("Timed out waiting for port")')
        /\ (probed' = Some(FALSE) /\ now' - post_start_start_time' > PortTimeout
               => post_start_state' = "DONE")]_vars

C5_Witness ==
    /\ PortConfigured /\ Printed("Timed out waiting for port")
    /\ post_start_state = "DONE" /\ notifiedSinceStart = 0
    /\ probed = Some(FALSE) /\ now - post_start_start_time > PortTimeout

\* C6 as claimed: the first tick starts the child whatever its snapshot
\* comparison yields.
C6_FirstTickAlwaysStarts ==
    [][TickStep /\ detectedAt = None /\ startsSinceChange = 0 => Started']_vars

\* C6, amended: the first tick starts the child without a debounce wait, for every
\* debounce_interval, when it detects no change; when it detects a change the
\* timer is re-armed and it starts the child only if debounce_interval has
\* already elapsed since that change.
C6_FirstTickStartsUnlessChanged ==
    [][TickStep /\ detectedAt = None /\ startsSinceChange = 0 =>
        /\ (~Changed' => Started' /\ ~pending_restart')
        /\ (Changed' => (Started' <=> now' - detectedAt'[1] >= debounce_interval))]_vars

C6_Witness ==
    /\ pc = "loop" /\ Started /\ detectedAt = None /\ startsSinceChange = 1
    /\ debounce_interval = 20 /\ now = 0 /\ process # None

\* C7: on every tick the fresh snapshot is compared with the stored one; if they
\* differ a change is detected on that tick (stored snapshot replaced, Last Change
\* Timestamp set to the time of detection, Restart Pending set - and consumed only
\* by a start in the same tick); if they are equal none of the three is modified
\* by the detection.
C7_ChangeDetectedIffSnapshotsDiffer ==
    [][TickStep =>
        IF current_snapshot' # last_snapshot
        THEN /\ Changed'
             /\ last_snapshot' = current_snapshot'
             /\ detectedAt' # None
             /\ last_change_time' = detectedAt'[1]
             /\ now <= last_change_time' /\ last_change_time' <= now'
             /\ (pending_restart' \/ Started')
        ELSE /\ ~Changed'
             /\ last_snapshot' = last_snapshot
             /\ last_change_time' = last_change_time
             /\ (pending_restart' = pending_restart \/ Started')]_vars

C7_Witness ==
    /\ Changed /\ pending_restart /\ last_snapshot = current_snapshot
    /\ last_snapshot # <<>> /\ last_change_time = now /\ now > 0 /\ nextPid > 1

\* C8: a child held on the tick a change is detected is stopped in that tick,
\* right after the detection and before the debounce is consulted: also on a tick
\* whose debounce has not elapsed, which ends with no child held.
C8_ChangeStopsChildFirst ==
    [][TickStep /\ Changed' /\ process # None =>
        /\ Len(out') >= 2
        /\ out'[1] = "Change detected."
        /\ out'[2] = "Stopping process..."
        /\ process' # process
        /\ (~Started' => process' = None)]_vars

C8_Witness ==
    /\ Changed /\ Printed("Stopping process...") /\ ~Started
    /\ pending_restart /\ process = None
    /\ now - last_change_time < debounce_interval

\* every run of the notifier in the last step came after a start in that step
NotifyOnlyAfterStart ==
    \A i \in DOMAIN out :
        out[i] = "notify" => \E j \in 1..(i - 1) : out[j] = "Starting"

\* C9: a change detected while the phase is WAITING_FOR_PORT resets the phase to
\* IDLE on that tick; from then until the next start no probe is made and the
\* notifier does not run, whatever the port does.
C9_ChangeAbandonsPortWait ==
    [][TickStep /\ (post_start_state = "IDLE"
                    \/ (post_start_state = "WAITING_FOR_PORT" /\ Changed')) =>
        /\ NotifyOnlyAfterStart'
        /\ (~Started' => post_start_state' = "IDLE" /\ probed' = None)]_vars

C9_Witness ==
    /\ PortConfigured /\ Changed /\ post_start_state = "IDLE" /\ nextPid > 1
    /\ notifiedSinceStart = 0

\* C10: once the supervisor has left the loop on an interrupt it holds no child
\* and no managed child is left running.
C10_NoChildAfterExit == pc = "exited" => process = None /\ alive = {}

\* C11: once the loop is entered it is left only on an operator interrupt: no
\* failure of a sub-component ends it.
C11_OnlyInterruptLeavesLoop ==
    [][pc = "loop" /\ pc' # "loop" =>
        pc' = "exited" /\ out' # <<>> /\ out'[1] = "Exiting..."]_vars

\* C12: a failed "git status" raises nothing: the snapshot it yields is the
\* empty mapping (at startup it becomes the stored snapshot; on a tick it is the
\* current snapshot, and the stored one after the comparison) and the loop
\* goes on.
C12_FailedQueryGivesEmptySnapshot ==
    snapshot_failed =>
        pc = "loop" /\ current_snapshot = <<>> /\ last_snapshot = <<>>

C12_Witness ==
    /\ snapshot_failed /\ pc = "loop" /\ process # None
    /\ current_snapshot = <<>> /\ out = <<>>

\* C13: a tick whose snapshot query failed logs no change, stops no child and
\* does not set pending_restart, whatever the stored snapshot was.
C13_FailedQueryIsNoChange ==
    [][TickStep /\ snapshot_failed' =>
        /\ ~Changed'
        /\ ~Printed("Stopping process...")'
        /\ (pending_restart' => pending_restart)]_vars

\* the signals and messages of the stops of the last step come in the order of
\* stop_process: SIGTERM directly after the stop begins, the escalation message
\* only after SIGTERM, SIGKILL only after the escalation message
StopOrder ==
    \A i \in DOMAIN out :
        /\ out[i] = "SIGTERM" => i > 1 /\ out[i - 1] = "Stopping process..."
        /\ out[i] = "Process didn't exit, sending SIGKILL..." =>
               i > 1 /\ out[i - 1] = "SIGTERM"
        /\ out[i] = "SIGKILL" =>
               i > 1 /\ out[i - 1] = "Process didn't exit, sending SIGKILL..."

\* C14: stop_process signals SIGTERM first and SIGKILL only after a wait of
\* StopTimeout seconds that a child running at the call did not end; when
\* the stop has returned and no child was spawned after it, no handle is held.
C14_GracefulThenForceful ==
    [][/\ StopOrder'
       /\ (Printed("SIGKILL")' =>
              /\ process # None /\ process[1] \in alive
              /\ now' - now >= StopTimeout)
       /\ (Printed("Stopping process...")'
              /\ (~Started' \/ Printed("Failed to start process")') =>
                  process' = None)]_vars

C14_Witness ==
    /\ pc = "loop" /\ process = None /\ alive = {} /\ ~Started
    /\ out = <<"Change detected.", "Stopping process...", "SIGTERM",
               "Process didn't exit, sending SIGKILL...", "SIGKILL">>

\* C15: with no handle held stop_process returns the controller as it was given,
\* whatever the operating system would answer, and a second stop_process after
\* a first one changes nothing more.
C15_StopIsIdempotent ==
    /\ process = None => \A oc \in StopOutcomes : stop_process(Self, oc) = Self
    /\ \A oc1 \in {o \in StopOutcomes : Feasible(Self, o)}, oc2 \in StopOutcomes :
          stop_process(stop_process(Self, oc1), oc2) = stop_process(Self, oc1)

\* the interrupt found no child: only the exit message was printed
C15_Witness ==
    pc = "exited" /\ out = <<"Exiting...">> /\ process = None /\ nextPid > 1

\* control is back in run() after the stop whose last message is out[i]: the
\* tick goes on to the restart, or ends at "continue", or the interrupt handler
\* ends
Returned(i) ==
    IF i < Len(out)
    THEN out[i + 1] \in {"Debounce settled. Restarting...", "Starting"}
    ELSE \/ pc = "exited"
         \/ pc = "loop" /\ pending_restart
                        /\ now - last_change_time < debounce_interval

\* a stop that met "process already gone" printed nothing after the message of
\* the call that raised
GoneAt(i) ==
    \/ /\ out[i] = "Stopping process..."
       /\ i < Len(out) => out[i + 1] \notin {"SIGTERM", "Error stopping process"}
    \/ /\ out[i] = "Process didn't exit, sending SIGKILL..."
       /\ i < Len(out) => out[i + 1] \notin {"SIGKILL", "Error stopping process"}

\* C16: after a signalling error in stop_process - logged, or silent when the
\* process was already gone - control is back in run(), which goes on.
C16_StopSwallowsSignalErrors ==
    \A i \in DOMAIN out :
        /\ out[i] = "Error stopping process" => Returned(i)
        /\ GoneAt(i) => Returned(i)
        /\ out[i] \notin {"PermissionError", "ProcessLookupError"}

C16_Witness ==
    /\ pc = "loop" /\ Started /\ process # None /\ Len(out) > 3
    /\ out[2] = "Stopping process..." /\ out[3] = "Error stopping process"

\* C17: when Popen was called and gave no handle, the failure is logged right
\* after the start message and the tick goes on with the post-start sequence;
\* the loop is not left.
C17_SpawnFailureIsLogged ==
    popen # <<>> /\ process = None =>
        /\ pc = "loop"
        /\ \E i \in DOMAIN out :
              /\ out[i] = "Failed to start process"
              /\ i > 1 /\ out[i - 1] = "Starting"
              /\ i < Len(out) /\ out[i + 1] \in {"Waiting for port", "notify"}

C17_Witness ==
    /\ Printed("Failed to start process") /\ pc = "loop"
    /\ post_start_state = "WAITING_FOR_PORT"

\* C18: a step that starts the child calls Popen once, with the configured
\* command, through the shell, with os.setsid as preexec_fn and no redirection
\* of the standard streams; unless the call failed the handle of the new child
\* is held.
C18_OneSpawnThroughShell ==
    /\ Len(popen) = Count("Starting")
    /\ Started =>
          /\ popen = <<[args |-> command, shell |-> TRUE,
                        preexec_fn |-> "os.setsid",
                        stdin |-> None, stdout |-> None, stderr |-> None]>>
          /\ ~Printed("Failed to start process") =>
                 process = Some(nextPid - 1) /\ nextPid - 1 \in alive

C18_Witness ==
    /\ Started /\ ~Printed("Failed to start process")
    /\ command = "npm start" /\ process = Some(2) /\ alive = {2}

\* the messages of the notifier's actions that can follow its call
NotifierTails ==
    {w \o h :
       w \in (IF webhook_url = None THEN {<<>>}
              ELSE {<<"Triggering webhook">>,
                    <<"Triggering webhook", "Webhook failed">>}),
       h \in (IF on_restart = None THEN {<<>>}
              ELSE {<<"Running on-restart command">>,
                    <<"Running on-restart command",
                      "Failed to run on-restart command">>})}

\* C19: every run of the notifier requests the webhook if one is configured and
\* then runs the hook command if one is configured, whether or not the webhook
\* failed; after it the phase is DONE and the loop goes on.
C19_EveryConfiguredActionRuns ==
    \A i \in DOMAIN out :
        out[i] = "notify" =>
            /\ SubSeq(out, i + 1, Len(out)) \in NotifierTails
            /\ pc = "loop" /\ post_start_state = "DONE"

C19_Witness ==
    /\ pc = "loop" /\ post_start_state = "DONE"
    /\ Printed("Webhook failed")
    /\ out[Len(out)] = "Failed to run on-restart command"

\* C20: for the configured port the probe raises nothing: it answers true for
\* a connection made and false for a connection refused, timed out or failed
\* with another OS error.
C20_ProbeNeverThrows ==
    post_start_state = "WAITING_FOR_PORT" =>
        \A conn \in ConnOutcomes :
            check_port(wait_for_port[1], conn)
                = [raised |-> "", value |-> conn = "connected"]

\* C21: with no command (no word, or a bare "--") the program ends with exit
\* code 1 and a message straight from main(); outside a git tree it ends with
\* exit code 1 and a message straight from the start of run(); in both cases
\* no tick has run and no child was ever started; exit code 1 is never reached
\* from the loop.
C21_StartupValidationIsFatal ==
    [][/\ (pc = "main" /\ argv \in {<<>>, <<"--">>} => pc' = "exit1")
       /\ (pc = "init" /\ ~in_git_tree => pc' = "exit1")
       /\ (pc' = "exit1" =>
              /\ pc \in {"main", "init", "exit1"}
              /\ out' # <<>> /\ now' = 0
              /\ nextPid' = 1 /\ process' = None /\ alive' = {} /\ popen' = <<>>)]_vars

C21_Witness ==
    pc = "exit1" /\ argv = <<"--">> /\ out = <<"Error: No command specified after --">>

\* the entries of the work tree that git reports as renamed, and the others
Renamed == {i \in DOMAIN work_tree.entries : work_tree.entries[i].orig # ""}
Single == {i \in DOMAIN work_tree.entries : work_tree.entries[i].orig = ""}

\* C22: a rename record of the status output gives two snapshot entries: the
\* old path marked removed (-1), and the new path mapped to its modification
\* time, or to -1 if the new path is not on disk. (Stated for a tree seen from
\* its top, with no file vanishing during the call.)
C22_RenameMarksOldAndStatsNew ==
    pc = "returned" /\ ~work_tree.raised /\ work_tree.cwd = ""
                    /\ work_tree.vanishing = ""
    => \A i \in Renamed :
          LET e == work_tree.entries[i]
          IN /\ ("OLD:" \o e.orig) \in DOMAIN current_snapshot
             /\ current_snapshot["OLD:" \o e.orig] = -1
             /\ e.path \in DOMAIN current_snapshot
             /\ current_snapshot[e.path] = e.mtime

\* C23: every non-rename record of the status output gives exactly one
\* snapshot entry keyed by its path: the modification time if the path exists
\* on disk, otherwise -1; a status output of only such records gives exactly
\* one key per distinct path. (Stated for paths that are valid UTF-8, with no
\* file vanishing during the call.)
C23_SingleRecordMapsPathToMtime ==
    pc = "returned" /\ ~work_tree.raised /\ work_tree.vanishing = ""
                    /\ (\A i \in Single : Decode(work_tree.entries[i].path)
                                              = work_tree.entries[i].path)
    => /\ \A i \in Single :
             LET e == work_tree.entries[i]
             IN /\ e.path \in DOMAIN current_snapshot
                /\ current_snapshot[e.path] = e.mtime
       /\ Renamed = {}
          => DOMAIN current_snapshot =
                {work_tree.entries[i].path : i \in Single}

\* C24: a CommandReloader configured with wait_for_regex starts the main
\* process attached to a new pseudo-terminal: the construction succeeds, and
\* every spawn passes the pty slave as stdin, stdout and stderr.
C24_RegexStartUsesPty ==
    []["wait_for_regex" \in kwargs
       => /\ pc = "construct" => pc' = "init"
          /\ \A i \in DOMAIN popen' :
                /\ popen'[i].stdin = Some("pty slave")
                /\ popen'[i].stdout = Some("pty slave")
                /\ popen'[i].stderr = Some("pty slave")]_vars

\* the events of one type in a sequence of events
OfType(events, type) == SelectSeq(events, LAMBDA e : e.type = type)

\* C25: each GET handled by a trigger listener (on macOS or Linux) is answered
\* with status 200 and then launches exactly one refresh subprocess, osascript
\* fed the AppleScript on stdin or the xdotool command; N requests make N
\* refresh attempts.
C25_EveryGetRefreshesOnce ==
    [][server # None /\ server[1].target_os \in {"darwin", "linux"}
       => LET old == server[1].events
              new == server'[1].events
              added == SubSeq(new, Len(old) + 1, Len(new))
          IN /\ SubSeq(new, 1, Len(old)) = old
             /\ Len(added) >= 2
             /\ added[1] = [type |-> "response", status |-> 200]
             /\ added[2].type = "subprocess"
             /\ IF server[1].target_os = "darwin"
                THEN /\ added[2].args = <<"osascript", "-">>
                     /\ added[2].stdin = get_applescript(server[1].app_port)
                ELSE /\ added[2].args = <<refresh_window(server[1].app_port)>>
                     /\ added[2].shell
             /\ Len(OfType(added, "response")) = 1
             /\ Len(OfType(added, "subprocess")) = 1
             /\ Len(OfType(new, "subprocess")) = server'[1].handled]_vars

C25_Witness ==
    /\ server # None
    /\ server[1].module = "listener" /\ server[1].target_os = "linux"
    /\ server[1].handled = 3
    /\ Len(OfType(server[1].events, "subprocess")) = 3
    /\ server[1].events[Len(server[1].events)].text = "Error running xdotool"

\* ---- the aggregator's claims: the call in the state and its parts
IsAggregate ==
    pc = "returned" /\ invocation # None /\ invocation[1].function = "aggregate_text"
Args == invocation[1].args
Processed == Members(invocation[1].result[1].processed_files)

\* the exclusion lists in force: the argument, or the configured default
InForce(argument, key) ==
    IF argument # None THEN Members(argument[1])
    ELSE Members(Get_(load_config(Args.package, Args.global), key, <<>>))

\* the dotted forms of the extension lists the calls use
Dotted(extensions) ==
    CASE extensions \in {None, Some(<<>>)} -> {}
      [] extensions \in {Some(<<"py">>), Some(<<".py">>)} -> {".py"}
      [] extensions = Some(<<"log">>) -> {".log"}
      [] extensions = Some(<<"log", ".json">>) -> {".log", ".json"}

\* the path is ignored by the .gitignore files of the call
Ignored(path) ==
    /\ load_gitignore_spec(Args.gitignores) # None
    /\ match_file(load_gitignore_spec(Args.gitignores)[1], path)

\* a matched regular file that no filter of the call excludes
Unfiltered(path) ==
    /\ \E i \in DOMAIN Args.path_patterns : path \in glob(Args.path_patterns[i])
    /\ ~Entry(path).isdir
    /\ Dotted(Args.include_extensions) # {}
       => \E ext \in Dotted(Args.include_extensions) : EndsWith(path, ext)
    /\ ~\E ext \in Dotted(Args.exclude_extensions) : EndsWith(path, ext)
    /\ Members(SplitPath(path)) \cap InForce(Args.exclude_directories,
                                             "exclude_directories") = {}
    /\ basename(path) \notin InForce(Args.exclude_files, "exclude_files")
    /\ Args.respect_gitignore => ~Ignored(path)

\* no returned path has a component listed in exclude_directories or a
\* basename listed in exclude_files
NoExcludedReturned ==
    \A path \in Processed :
        /\ Members(SplitPath(path)) \cap InForce(Args.exclude_directories,
                                                 "exclude_directories") = {}
        /\ basename(path) \notin InForce(Args.exclude_files, "exclude_files")

\* C26 as stated: aggregate_text never returns an excluded file, while every
\* matched regular file that no filter excludes is returned.
C26_ExcludedNeverOthersAlways ==
    IsAggregate => /\ NoExcludedReturned
                   /\ \A path \in TreePaths : Unfiltered(path) => path \in Processed

\* C26, amended: aggregate_text never returns an excluded file, while every
\* matched regular file that no filter excludes and that can be read as UTF-8
\* text is returned.
C26_ExcludedNeverReadableOthersAlways ==
    IsAggregate
    => /\ NoExcludedReturned
       /\ \A path \in TreePaths :
             Unfiltered(path) /\ Entry(path).readable => path \in Processed

C26_Witness ==
    /\ IsAggregate
    /\ Args.exclude_directories = Some(<<"node_modules">>)
    /\ Args.exclude_files = Some(<<"package-lock.json">>)
    /\ "app.py" \in Processed /\ "node_modules/hidden.py" \notin Processed
    /\ Unfiltered("bin.dat") /\ "bin.dat" \notin Processed

\* C27: a bare extension and its dotted form are equivalent (['py'] behaves
\* like ['.py']), and with include_extensions given the files processed are
\* exactly those the same call without include_extensions processes whose
\* name ends with one of the dotted extensions.
C27_BareExtensionIsDotted ==
    IsAggregate /\ Dotted(Args.include_extensions) # {}
    => /\ Args.include_extensions = Some(<<"py">>)
          => invocation[1].result[1]
               = aggregate_text([Args EXCEPT !.include_extensions = Some(<<".py">>)])
       /\ Processed =
            {path \in Members(aggregate_text(
                         [Args EXCEPT !.include_extensions = None]).processed_files) :
                \E ext \in Dotted(Args.include_extensions) : EndsWith(path, ext)}

C27_Witness ==
    /\ IsAggregate
    /\ Args.include_extensions = Some(<<"py">>)
    /\ Args.path_patterns = <<"**/*">>
    /\ invocation[1].result[1].processed_files = <<"app.py", "node_modules/hidden.py">>

\* C28: with respect_gitignore true no file that the .gitignore files of the
\* working directory and its parents ignore is processed; with
\* respect_gitignore false the call processes what it would process with no
\* .gitignore file at all, the ignored files included.
C28_GitignoreOnlyWhenRespected ==
    IsAggregate
    => /\ Args.respect_gitignore => \A path \in Processed : ~Ignored(path)
       /\ ~Args.respect_gitignore
          => invocation[1].result[1]
               = aggregate_text([Args EXCEPT !.respect_gitignore = TRUE,
                                             !.gitignores = <<>>])

C28_Witness ==
    /\ IsAggregate
    /\ ~Args.respect_gitignore
    /\ Ignored("debug.log") /\ "debug.log" \in Processed
    /\ "debug.log" \notin
          Members(aggregate_text([Args EXCEPT !.respect_gitignore = TRUE]).processed_files)

\* C29: load_config gives the global config priority over the package default
\* key by key: a key in both has the global value, whole; a key only in the
\* package default keeps its default value.
C29_GlobalOverridesPackagePerKey ==
    pc = "returned" /\ invocation # None /\ invocation[1].function = "load_config"
                    /\ invocation[1].args.package.kind = "object"
                    /\ invocation[1].args.global.kind = "object"
    => LET package == invocation[1].args.package.content
           global == invocation[1].args.global.content
           loaded == invocation[1].result[1]
       IN /\ DOMAIN loaded = DOMAIN package \cup DOMAIN global
          /\ \A key \in DOMAIN global : loaded[key] = global[key]
          /\ \A key \in DOMAIN package \ DOMAIN global : loaded[key] = package[key]

C29_Witness ==
    /\ pc = "returned" /\ invocation # None /\ invocation[1].function = "load_config"
    /\ invocation[1].args.package.content
          = [exclude_directories |-> <<"pkg_exclude">>, no_copy |-> FALSE]
    /\ invocation[1].args.global.content = [exclude_directories |-> <<"global_exclude">>]
    /\ invocation[1].result[1]
          = [exclude_directories |-> <<"global_exclude">>, no_copy |-> FALSE]

\* C30: while a stream of changes lasts, each detected less than
\* debounce_interval after the previous one, no start of the child occurs
\* after the first change of the stream and no child runs: whenever a change
\* continues the stream, there was no start since the previous change, there
\* is none in this tick, and no child is or was left running.
C30_StreamDefersRestart ==
    [][TickStep /\ Changed' /\ burst' > 1
       => /\ startsSinceChange = 0 /\ ~Started'
          /\ process = None /\ process' = None
          /\ alive = {} /\ alive' = {}]_vars

\* C31: the phase entered at a restart is evaluated in the tick of the
\* restart: with a port configured the probe is made in that tick, and if the
\* port is reachable the notifier runs in it, after the start, and the phase
\* is DONE at its end; a tick whose debounce gate is still closed (it ends
\* with the restart pending) does no post-start processing.
C31_PhaseEvaluatedInRestartTick ==
    [][TickStep =>
        /\ (Started' /\ PortConfigured =>
               /\ probed' # None
               /\ (probed' = Some(TRUE) =>
                      /\ Notified' /\ Position("notify")' > Position("Starting")'
                      /\ post_start_state' = "DONE")
               /\ (probed' = Some(FALSE) => ~Notified'))
        /\ (pending_restart' =>
               /\ probed' = None /\ ~Notified' /\ ~Started'
               /\ ~Printed("Timed out waiting for port")'
               /\ post_start_state' # "WAITING_FOR_PORT"
               /\ notifiedSinceStart' = notifiedSinceStart)]_vars

C31_Witness ==
    /\ pc = "loop" /\ PortConfigured /\ Started /\ Changed = FALSE
    /\ probed = Some(TRUE) /\ Notified /\ post_start_state = "DONE"
    /\ detectedAt # None /\ debounce_interval > 0

\* C32: at every tick boundary at which the phase is WAITING_FOR_PORT the
\* controller holds the handle of a managed child: "waiting for port" with
\* process = None is never reached, neither after a failed spawn nor after a
\* stop that a change triggered.
C32_WaitingForPortHoldsChild ==
    pc = "loop" /\ post_start_state = "WAITING_FOR_PORT" => process # None

\* C33: every tick of the poll loop completes: no tick, one that runs the
\* notifier included, is left waiting without bound (the loop is never blocked
\* inside a tick).
C33_EveryTickCompletes ==
    pc # "blocked"

C35_PendingRestartNoChild ==
    pc = "loop" /\ pending_restart => process = None /\ alive = {}

\* C36: the notifier runs at most once per start of the child; a tick that
\* begins in the phase DONE and starts no child does not probe the port, does
\* not run the notifier and leaves the phase DONE, whether DONE was reached by
\* a reachable port or by the timeout.
C36_NotifierAtMostOncePerStart ==
    /\ [](notifiedSinceStart <= 1 /\ Count("notify") <= 1)
    /\ [][TickStep /\ post_start_state = "DONE" /\ ~Started' =>
              /\ ~Notified' /\ probed' = None
              /\ notifiedSinceStart' = notifiedSinceStart
              /\ post_start_state' = "DONE"]_vars
    /\ [][TickStep /\ Notified' => Started' \/ post_start_state = "WAITING_FOR_PORT"]_vars

\* a tick taken after the wait for the port was given up on the timeout
C36_Witness ==
    /\ pc = "loop" /\ PortConfigured /\ post_start_state = "DONE"
    /\ notifiedSinceStart = 0 /\ now - post_start_start_time > PortTimeout
    /\ probed = None /\ out = <<>> /\ alive # {}

\* the deadline the loop is waiting for has not passed yet: the debounce of
\* a pending restart, or the timeout of a wait for the port
DeadlineAhead ==
    \/ pending_restart /\ now - last_change_time < debounce_interval
    \/ /\ ~pending_restart /\ post_start_state = "WAITING_FOR_PORT"
       /\ now - post_start_start_time <= PortTimeout
\* no restart is pending, the start for the last change has been made and
\* the phase is DONE
Settled ==
    ~pending_restart /\ post_start_state = "DONE" /\ startsSinceChange = 1

\* C37, in the form a finite run refutes: a tick that detects no change
\* completes, and it ends either with a deadline still ahead (the debounce of
\* the pending restart, the 30 s of the wait for the port) or settled: no
\* restart pending, the start for the last change made, the phase DONE; and a
\* tick without a change leaves a settled controller settled.  The clock
\* passes every deadline, so a run without changes and without an interrupt
\* settles.
C37_QuietRunSettles ==
    [][pc = "loop" /\ pc' # "exited" /\ (alive' = alive \/ out' # <<>>)
           /\ ~Changed' =>
          /\ pc' = "loop"
          /\ Settled' \/ DeadlineAhead'
          /\ (Settled => Settled')]_vars

ChildExitStep == pc' = pc /\ alive' # alive /\ out' = <<>>
\* the controller holds the handle of a child that has exited
HoldsExitedChild == process # None /\ process[1] \notin alive

\* C39: the exit of the child by itself changes none of pending_restart, the
\* phase, the handle and the debounce timer; a later tick that detects no
\* change keeps the handle of the exited child, schedules no restart and
\* starts nothing (a wait for the port goes on as it would have); the
\* command is started again only in a tick whose restart a detected change
\* made pending.
C39_ChildExitIsNotObserved ==
    /\ [][ChildExitStep =>
              UNCHANGED <<pending_restart, post_start_state, process,
                          last_change_time, last_snapshot>>]_vars
    /\ [][TickStep /\ HoldsExitedChild /\ ~Changed' =>
              /\ process' = process /\ HoldsExitedChild'
              /\ ~pending_restart' /\ ~Started' /\ popen' = <<>>
              /\ post_start_state' \in {post_start_state, "DONE"}
              /\ (post_start_state' # post_start_state =>
                     post_start_state = "WAITING_FOR_PORT" /\ probed' # None)]_vars
    /\ [][TickStep /\ Started' /\ nextPid > 1 =>
              /\ detectedAt' # None /\ startsSinceChange' = 1
              /\ (Changed' \/ pending_restart)]_vars

\* the child has exited during the wait for the port, and a tick without a
\* change has probed the port since
C39_Witness ==
    /\ pc = "loop" /\ HoldsExitedChild /\ ~Started /\ ~Changed
    /\ ~pending_restart /\ post_start_state = "WAITING_FOR_PORT"
    /\ probed = Some(FALSE) /\ now > post_start_start_time

\* C40: at every tick boundary the phase IDLE goes with a pending restart and
\* the phase WAITING_FOR_PORT with none pending; a tick never ends in IDLE
\* after a start, and never in WAITING_FOR_PORT after a detected change.
C40_PhaseAgreesWithPendingRestart ==
    pc = "loop" =>
        /\ post_start_state \in {"IDLE", "WAITING_FOR_PORT", "DONE"}
        /\ (post_start_state = "IDLE" => pending_restart)
        /\ (post_start_state = "WAITING_FOR_PORT" => ~pending_restart)
        /\ (post_start_state = "WAITING_FOR_PORT" => PortConfigured)

\* the phase DONE with a restart pending: a change detected after the
\* post-start sequence of an earlier start had ended
C40_Witness ==
    /\ pc = "loop" /\ post_start_state = "DONE" /\ pending_restart
    /\ Changed /\ process = None /\ nextPid > 1
====
